---- MODULE Spec2Model ----
(***************************************************************************)
(* Model of eframe's native winit integration                              *)
(* (crates/eframe/src/native/winit_integration.rs): context bootstrap,     *)
(* system theme resolution and the routing of AccessKit window events and  *)
(* repaint requests to EventResult directives.                             *)
(***************************************************************************)
EXTENDS Integers, Sequences, FiniteSets, TLC

\* ---------------------------------------------------------------- bounds
\* Longest sequence of accessibility window events that is handled.
MaxEvents == 3
\* Persisted memories are 0..MaxMemory.
MaxMemory == 1
\* Window ids are 1..MaxWindow; viewport ids are 0..MaxWindow.
MaxWindow == 2
\* Instants carried by a repaint request are 0..MaxInstant.
MaxInstant == 1
\* Frame numbers carried by a repaint request are 0..MaxFrame.
MaxFrame == 2

\* ---------------------------------------------------------------- values
\* Option<T>
None == [tag |-> "None"]

Some(x) == [tag |-> "Some", value |-> x]

\* The values of cfg!(target_os = ...) the crate is built for.
TargetOs == {"freebsd", "linux", "macos", "openbsd", "windows", "android"}

Memories == 0..MaxMemory

\* egui::Memory::default()
MemoryDefault == 0

WindowIds == 1..MaxWindow

ViewportIds == 0..MaxWindow

Instants == 0..MaxInstant

FrameNrs == 0..MaxFrame

\* accesskit::ActionRequest
ActionRequests == {"Click", "Focus"}

\* accesskit_winit::WindowEvent
WindowEvents ==
    {[kind |-> "InitialTreeRequested"], [kind |-> "AccessibilityDeactivated"]}
    \cup {[kind |-> "ActionRequested", request |-> r] : r \in ActionRequests}

\* enum EventResult
Wait == [tag |-> "Wait"]

RepaintNow(window_id) == [tag |-> "RepaintNow", window_id |-> window_id]

RepaintNext(window_id) == [tag |-> "RepaintNext", window_id |-> window_id]

RepaintAt(window_id, when) ==
    [tag |-> "RepaintAt", window_id |-> window_id, when |-> when]

Exit == [tag |-> "Exit"]

\* The serializer behind epi::set_value.
serialize_memory(m) == [format |-> "ron", payload |-> m + 1]

\* A persisted blob under the egui memory key: a serialized memory, or bytes
\* that do not deserialize.
Blobs == {serialize_memory(m) : m \in Memories} \cup {[format |-> "garbage"]}

\* Option<&dyn Storage>: no storage, or a storage whose memory key is unset
\* or holds a blob.
Storages == {None} \cup {Some(None)} \cup {Some(Some(b)) : b \in Blobs}

\* window.theme() : Option<winit::window::Theme>
WinitThemes == {None, Some("winit::Light"), Some("winit::Dark")}

\* ---------------------------------------------------------------- state
VARIABLES
    target_os,   \* the target the crate was compiled for
    storage,     \* the storage handed to create_egui_context
    egui_winit,  \* egui_winit::State: the context and the raw input events
    history,     \* kinds of the accessibility window events handled so far
    call,        \* the last operation invoked, with its arguments
    ret          \* what that operation returned

vars == <<target_os, storage, egui_winit, history, call, ret>>

\* ---------------------------------------------------------------- bootstrap
\* egui::Context::default()
ContextDefault ==
    [memory |-> MemoryDefault, embed_viewports |-> TRUE, accesskit_enabled |-> FALSE]

\* The deserializer behind epi::get_value.
deserialize_memory(blob) ==
    IF blob.format = "ron" THEN Some(blob.payload - 1) ELSE None

\* epi_integration::load_egui_memory
load_egui_memory(st) ==
    IF st.tag = "None" THEN None
    ELSE IF st.value.tag = "None" THEN None
    ELSE deserialize_memory(st.value.value)

IS_DESKTOP(os) == os \in {"freebsd", "linux", "macos", "openbsd", "windows"}

\* Mutant: the compile-time flag is passed without the negation.
create_egui_context_embed_desktop(os, st) ==
    LET egui_ctx == [ContextDefault EXCEPT !.embed_viewports = IS_DESKTOP(os)]
        loaded   == load_egui_memory(st)
        memory   == IF loaded.tag = "Some" THEN loaded.value ELSE MemoryDefault
    IN  [tag |-> "Context", ctx |-> [egui_ctx EXCEPT !.memory = memory]]

\* Mutant: the loaded memory is never written into the context.
create_egui_context_no_restore(os, st) ==
    LET egui_ctx == [ContextDefault EXCEPT !.embed_viewports = ~IS_DESKTOP(os)]
    IN  [tag |-> "Context", ctx |-> egui_ctx]

\* Mutant: unwrap() in place of unwrap_or_default().
create_egui_context_unwrap(os, st) ==
    LET egui_ctx == [ContextDefault EXCEPT !.embed_viewports = ~IS_DESKTOP(os)]
        loaded   == load_egui_memory(st)
    IN  IF loaded.tag = "Some"
        THEN [tag |-> "Context", ctx |-> [egui_ctx EXCEPT !.memory = loaded.value]]
        ELSE [tag |-> "Panic"]

create_egui_context(os, st) ==
    LET egui_ctx == [ContextDefault EXCEPT !.embed_viewports = ~IS_DESKTOP(os)]
        loaded   == load_egui_memory(st)
        memory   == IF loaded.tag = "Some" THEN loaded.value ELSE MemoryDefault
    IN  [tag |-> "Context", ctx |-> [egui_ctx EXCEPT !.memory = memory]]

\* ---------------------------------------------------------------- theme
\* epi_integration::theme_from_winit_theme
theme_from_winit_theme(theme) ==
    IF theme = "winit::Dark" THEN "Theme::Dark" ELSE "Theme::Light"

\* Mutant: the follow_system_theme option is ignored.
system_theme_always(window, options) ==
    [value |-> IF window.theme.tag = "Some"
               THEN Some(theme_from_winit_theme(window.theme.value))
               ELSE None,
     theme_reads |-> 1]

\* Returns the value and how many times window.theme() was read.
system_theme(window, options) ==
    IF options.follow_system_theme
    THEN [value |-> IF window.theme.tag = "Some"
                    THEN Some(theme_from_winit_theme(window.theme.value))
                    ELSE None,
          theme_reads |-> 1]
    ELSE [value |-> None, theme_reads |-> 0]

\* ---------------------------------------------------------------- accesskit
\* egui::Context::enable_accesskit
enable_accesskit(ctx) == [ctx EXCEPT !.accesskit_enabled = TRUE]

\* egui::Context::disable_accesskit
disable_accesskit(ctx) == [ctx EXCEPT !.accesskit_enabled = FALSE]

\* egui_winit::State::on_accesskit_action_request: queues the request as a
\* raw input event.
on_accesskit_action_request(st, request) ==
    [st EXCEPT !.egui_input_events =
        Append(@, [tag |-> "AccessKitActionRequest", request |-> request])]

\* Mutant: the initial tree is answered with a deferred repaint.
on_initial_tree_requested_deferred(st, window_id) ==
    [egui_winit |-> [st EXCEPT !.egui_ctx = enable_accesskit(@)],
     result |-> RepaintNext(window_id)]

\* The InitialTreeRequested arm.
on_initial_tree_requested(st, window_id) ==
    [egui_winit |-> [st EXCEPT !.egui_ctx = enable_accesskit(@)],
     result |-> RepaintNow(window_id)]

\* Mutant: the request is not handed to egui_winit.
on_action_requested_dropped(st, window_id, request) ==
    [egui_winit |-> st, result |-> RepaintNext(window_id)]

\* Mutant: handling an action also switches AccessKit off.
on_action_requested_disabling(st, window_id, request) ==
    [egui_winit |->
        [on_accesskit_action_request(st, request)
            EXCEPT !.egui_ctx = disable_accesskit(@)],
     result |-> RepaintNext(window_id)]

\* The ActionRequested(request) arm.
on_action_requested(st, window_id, request) ==
    [egui_winit |-> on_accesskit_action_request(st, request),
     result |-> RepaintNext(window_id)]

\* Mutant: AccessKit stays enabled on deactivation.
on_accessibility_deactivated_still_enabled(st, window_id) ==
    [egui_winit |-> st, result |-> Wait]

\* Mutant: deactivation ends the event loop.
on_accessibility_deactivated_exit(st, window_id) ==
    [egui_winit |-> [st EXCEPT !.egui_ctx = disable_accesskit(@)],
     result |-> Exit]

\* The AccessibilityDeactivated arm.
on_accessibility_deactivated(st, window_id) ==
    [egui_winit |-> [st EXCEPT !.egui_ctx = disable_accesskit(@)],
     result |-> Wait]

\* Returns the state as the handler leaves it and the EventResult.
on_accesskit_window_event(st, window_id, event) ==
    CASE event.kind = "InitialTreeRequested" ->
            on_initial_tree_requested(st, window_id)
      [] event.kind = "ActionRequested" ->
            on_action_requested(st, window_id, event.request)
      [] event.kind = "AccessibilityDeactivated" ->
            on_accessibility_deactivated(st, window_id)

\* ---------------------------------------------------------------- repaint requests
\* WinitApp::window_id_from_viewport_id: viewport v is shown in window v + 1;
\* the last viewport has no window.
window_id_from_viewport_id(id) ==
    IF id + 1 \in WindowIds THEN Some(id + 1) ELSE None

\* WinitApp::frame_nr: the frame the application is at.
frame_nr(viewport_id) == 1

\* Mutant: a request made in an older frame is discarded.
on_event_request_repaint_fresh_only(viewport_id, when, request_frame_nr) ==
    LET window_id == window_id_from_viewport_id(viewport_id)
    IN  IF request_frame_nr # frame_nr(viewport_id)
        THEN [tag |-> "Ok", value |-> Wait]
        ELSE IF window_id.tag = "Some"
        THEN [tag |-> "Ok", value |-> RepaintAt(window_id.value, when)]
        ELSE [tag |-> "Err"]

\* WinitApp::on_event for UserEvent::RequestRepaint { viewport_id, when, frame_nr }
on_event_request_repaint(viewport_id, when, request_frame_nr) ==
    LET window_id == window_id_from_viewport_id(viewport_id)
    IN  IF window_id.tag = "Some"
        THEN [tag |-> "Ok", value |-> RepaintAt(window_id.value, when)]
        ELSE [tag |-> "Err"]

\* ---------------------------------------------------------------- actions
Init ==
    /\ target_os \in TargetOs
    /\ storage \in Storages
    /\ egui_winit = [tag |-> "Uninit"]
    /\ history = <<>>
    /\ call = [op |-> "none"]
    /\ ret = None

\* create_egui_context(storage), the context then owned by egui_winit::State.
CreateContext ==
    /\ egui_winit.tag = "Uninit"
    /\ LET r == create_egui_context(target_os, storage)
       IN  /\ ret' = r
           /\ egui_winit' =
                IF r.tag = "Context"
                THEN [tag |-> "State", egui_ctx |-> r.ctx, egui_input_events |-> <<>>]
                ELSE [tag |-> "Aborted"]
    /\ call' = [op |-> "create_egui_context"]
    /\ UNCHANGED <<target_os, storage, history>>

\* The event loop delivers one accessibility window event.
OnAccessKitWindowEvent ==
    /\ egui_winit.tag = "State"
    /\ Len(history) < MaxEvents
    /\ \E window_id \in WindowIds, event \in WindowEvents :
          LET r == on_accesskit_window_event(egui_winit, window_id, event)
          IN  /\ egui_winit' = r.egui_winit
              /\ ret' = r.result
              /\ call' = [op |-> "on_accesskit_window_event",
                          window_id |-> window_id, event |-> event,
                          prior |-> egui_winit]
              /\ history' = Append(history, event.kind)
    /\ UNCHANGED <<target_os, storage>>

\* The event loop delivers UserEvent::RequestRepaint.
OnRequestRepaint ==
    /\ egui_winit.tag = "State"
    /\ \E viewport_id \in ViewportIds, when \in Instants, nr \in FrameNrs :
          /\ ret' = on_event_request_repaint(viewport_id, when, nr)
          /\ call' = [op |-> "on_event", viewport_id |-> viewport_id,
                      when |-> when, frame_nr |-> nr]
    /\ UNCHANGED <<target_os, storage, egui_winit, history>>

\* The integration asks for the system theme of a window.
SystemTheme ==
    /\ \E theme \in WinitThemes, follow \in BOOLEAN :
          LET window  == [theme |-> theme]
              options == [follow_system_theme |-> follow]
          IN  /\ ret' = system_theme(window, options)
              /\ call' = [op |-> "system_theme", window |-> window,
                          options |-> options]
    /\ UNCHANGED <<target_os, storage, egui_winit, history>>

Next ==
    \/ CreateContext
    \/ OnAccessKitWindowEvent
    \/ OnRequestRepaint
    \/ SystemTheme

Spec == Init /\ [][Next]_vars

\* ---------------------------------------------------------------- properties
\* The last operation was on_accesskit_window_event with an event of this kind.
HandledAccessKit(kind) ==
    /\ call.op = "on_accesskit_window_event"
    /\ call.event.kind = kind

\* C1: an InitialTreeRequested event on window W returns RepaintNow(W) and
\* leaves AccessKit enabled, whatever the flag was before.
C1_InitialTreeRepaintsNow ==
    HandledAccessKit("InitialTreeRequested") =>
        /\ ret = RepaintNow(call.window_id)
        /\ egui_winit.egui_ctx.accesskit_enabled = TRUE

\* C1 witness: the event arrived while AccessKit was already enabled.
C1_Witness ==
    /\ HandledAccessKit("InitialTreeRequested")
    /\ call.prior.egui_ctx.accesskit_enabled = TRUE
    /\ call.window_id = MaxWindow
    /\ ret = RepaintNow(MaxWindow)

\* C2: an AccessibilityDeactivated event returns Wait and leaves AccessKit
\* disabled, for any window and any earlier value of the flag.
C2_DeactivatedWaits ==
    HandledAccessKit("AccessibilityDeactivated") =>
        /\ ret = Wait
        /\ egui_winit.egui_ctx.accesskit_enabled = FALSE

\* C2 witness: AccessKit was enabled when the deactivation arrived.
C2_Witness ==
    /\ HandledAccessKit("AccessibilityDeactivated")
    /\ call.prior.egui_ctx.accesskit_enabled = TRUE
    /\ egui_winit.egui_ctx.accesskit_enabled = FALSE
    /\ ret = Wait

\* C3: an ActionRequested event on window W hands the request to egui_winit
\* exactly once (one more queued input event, carrying that request) and
\* returns RepaintNext(W), never RepaintNow.
C3_ActionForwardedOnce ==
    HandledAccessKit("ActionRequested") =>
        /\ egui_winit.egui_input_events =
              Append(call.prior.egui_input_events,
                     [tag |-> "AccessKitActionRequest",
                      request |-> call.event.request])
        /\ ret = RepaintNext(call.window_id)
        /\ ret.tag # "RepaintNow"

\* C3 witness: a second request is queued behind an earlier one.
C3_Witness ==
    /\ HandledAccessKit("ActionRequested")
    /\ Len(call.prior.egui_input_events) = 1
    /\ Len(egui_winit.egui_input_events) = 2
    /\ egui_winit.egui_input_events[1].request # egui_winit.egui_input_events[2].request
    /\ ret = RepaintNext(call.window_id)

\* C4: with follow_system_theme off, system_theme returns None for every
\* theme the window reports and does not read the window's theme.
C4_NoThemeUnlessFollowing ==
    (call.op = "system_theme" /\ ~call.options.follow_system_theme) =>
        /\ ret.value = None
        /\ ret.theme_reads = 0

\* C4 witness: the window reports a dark theme and the option is off.
C4_Witness ==
    /\ call.op = "system_theme"
    /\ ~call.options.follow_system_theme
    /\ call.window.theme = Some("winit::Dark")
    /\ ret.value = None

\* The storage from which no memory can be restored: no storage, an unset
\* key, or a blob that does not deserialize.
NothingToRestore ==
    \/ storage = None
    \/ storage = Some(None)
    \/ storage = Some(Some([format |-> "garbage"]))

\* C5: create_egui_context always returns a context, and when nothing can be
\* restored the context's memory is the default memory.
C5_BootstrapFallsBackToDefault ==
    /\ egui_winit.tag \in {"Uninit", "State"}
    /\ call.op = "create_egui_context" =>
          /\ ret.tag = "Context"
          /\ NothingToRestore => ret.ctx.memory = MemoryDefault

\* C5 witness: bootstrap from a storage holding an undecodable blob.
C5_Witness ==
    /\ call.op = "create_egui_context"
    /\ storage = Some(Some([format |-> "garbage"]))
    /\ ret.tag = "Context"
    /\ ret.ctx.memory = MemoryDefault

\* C6: when the storage holds a saved memory M, the context returned by
\* create_egui_context has memory M.
C6_BootstrapRestoresMemory ==
    \A m \in Memories :
        (call.op = "create_egui_context" /\ storage = Some(Some(serialize_memory(m))))
            => (ret.tag = "Context" /\ ret.ctx.memory = m)

\* C6 witness: the restored memory differs from the default memory.
C6_Witness ==
    /\ call.op = "create_egui_context"
    /\ storage = Some(Some(serialize_memory(MaxMemory)))
    /\ ret.tag = "Context"
    /\ ret.ctx.memory = MaxMemory
    /\ ret.ctx.memory # MemoryDefault

\* C7: a RequestRepaint for a viewport that has a window W returns
\* RepaintAt(W, when) with the instant of the request, whether or not the
\* request's frame number is the application's current one.
C7_RepaintRequestForwarded ==
    \A w \in WindowIds :
        (call.op = "on_event" /\ window_id_from_viewport_id(call.viewport_id) = Some(w))
            => ret = [tag |-> "Ok", value |-> RepaintAt(w, call.when)]

\* C7 witness: a request from a frame other than the current one is forwarded.
C7_Witness ==
    /\ call.op = "on_event"
    /\ call.frame_nr # frame_nr(call.viewport_id)
    /\ call.when = MaxInstant
    /\ ret.tag = "Ok"
    /\ ret.value.tag = "RepaintAt"
    /\ ret.value.when = MaxInstant

\* C8: the context embeds viewports exactly when the target is none of
\* freebsd, linux, macos, openbsd, windows; storage and memory play no part.
C8_EmbedViewportsOffDesktop ==
    egui_winit.tag = "State" =>
        (egui_winit.egui_ctx.embed_viewports
            <=> target_os \notin {"freebsd", "linux", "macos", "openbsd", "windows"})

\* C8 witness: a desktop build that restored a saved memory.
C8_Witness ==
    /\ egui_winit.tag = "State"
    /\ target_os = "windows"
    /\ egui_winit.egui_ctx.memory # MemoryDefault
    /\ egui_winit.egui_ctx.embed_viewports = FALSE

\* The flag the handled events leave: that of the latest InitialTreeRequested
\* or AccessibilityDeactivated, else the flag of a fresh context.
RECURSIVE FlagAfter(_)
FlagAfter(h) ==
    IF h = <<>> THEN FALSE
    ELSE IF h[Len(h)] = "InitialTreeRequested" THEN TRUE
    ELSE IF h[Len(h)] = "AccessibilityDeactivated" THEN FALSE
    ELSE FlagAfter(SubSeq(h, 1, Len(h) - 1))

\* C9: after any sequence of accessibility window events the flag is the one
\* set by the latest InitialTreeRequested or AccessibilityDeactivated event;
\* ActionRequested events do not change it.
C9_FlagFollowsLatestToggle ==
    egui_winit.tag = "State" =>
        egui_winit.egui_ctx.accesskit_enabled = FlagAfter(history)

\* C9 witness: an action handled after AccessKit was enabled leaves it enabled.
C9_Witness ==
    /\ egui_winit.tag = "State"
    /\ Len(history) = 3
    /\ history[2] = "InitialTreeRequested"
    /\ history[3] = "ActionRequested"
    /\ egui_winit.egui_ctx.accesskit_enabled = TRUE

\* C10: every accessibility window event yields one directive, which is Wait,
\* RepaintNow or RepaintNext, never Exit or RepaintAt, and carries no window
\* id other than the one the handler was called with.
C10_DirectiveForOwnWindow ==
    call.op = "on_accesskit_window_event" =>
        /\ ret.tag \in {"Wait", "RepaintNow", "RepaintNext"}
        /\ ret.tag \in {"RepaintNow", "RepaintNext"} =>
              ret = [tag |-> ret.tag, window_id |-> call.window_id]
        /\ ret.tag = "Wait" => ret = Wait

\* C10 witness: a directive for the second window.
C10_Witness ==
    /\ call.op = "on_accesskit_window_event"
    /\ call.window_id = MaxWindow
    /\ ret.tag \in {"RepaintNow", "RepaintNext"}
    /\ ret.window_id = MaxWindow

====
